---- MODULE Spec2Model ----
(***************************************************************************)
(* Model of the ingestion scheduler (background_processor.py), the         *)
(* similarity index (vector_store.py) and the search/embedding cache       *)
(* (redis_service.py) of studysendrag.                                     *)
(*                                                                         *)
(* The scheduler is an asyncio program: start() spawns a consumer task     *)
(* running _process_queue, which takes items off the queue and runs        *)
(* _process_document on them.  Every assignment of a progress value is a   *)
(* step of the consumer; the calls dispatched with asyncio.to_thread       *)
(* (summary, add_document_chunks, store_document_summary) are steps of     *)
(* their own, so other tasks and threads interleave with them.             *)
(* The document_summaries table is written by the pipeline but read by no  *)
(* operation modelled here, and is left out.                               *)
(***************************************************************************)
EXTENDS Naturals, Integers, Sequences, FiniteSets, TLC

(* ------------------------------ bounds --------------------------------- *)
MaxJobs == 2          \* submissions per behaviour
MaxConsumers == 2     \* consumer tasks alive at the same time
ChunksPerDoc == 2     \* chunks chunk_text yields for a document
MaxBatch == 3         \* texts in one generate_embeddings call
MaxEmbedCalls == 2    \* generate_embeddings calls of one caller
MaxCandidates == 3    \* rows search_similar_chunks hands to get_relevant_context
MaxDots == 2          \* periods in a text handed to chunk_text
MaxIterations == 8    \* passes of the chunk_text loop that are followed
MaxPages == 2         \* pages of a parsed document

(* --------------------------- program constants ------------------------- *)
n_results == 5        \* default of search_similar_chunks
max_chunks == 5       \* default of get_relevant_context
primary_threshold == 40     \* similarity > 0.4, in hundredths
secondary_threshold == 30   \* similarity > 0.3, in hundredths
min_results == 2      \* len(filtered_results) < 2
default_chunk_size == 600   \* chunk_text(chunk_size=600)
default_overlap == 150      \* chunk_text(overlap=150)
sentence_window == 100      \* sentence_end > start + chunk_size - 100

(* ------------------------------ inputs --------------------------------- *)
Posts == {1, 2}                 \* post ids with a document
Resubmitted == {2}              \* the post the scheduler runs are about
CourseOf(p) == 1                \* both posts belong to course 1
Courses == {CourseOf(p) : p \in Posts}
Queries == {"q1"}
Texts == {"a", "b"}             \* texts handed to generate_embeddings
FetchErrors == {"Failed to download from S3", ""}   \* "" : str(e) of a parse error may be empty
Slots == 1..MaxConsumers

VARIABLES
    processes,        \* BackgroundProcessor.processes : process id -> ProcessInfo
    queue,            \* BackgroundProcessor.queue (asyncio.Queue) : sequence of process ids
    is_running,       \* BackgroundProcessor.is_running
    consumers,        \* the _process_queue tasks created by start(): slot -> [pc, item]
    document_chunks,  \* table document_chunks: set of committed rows
    added,            \* history: process ids whose add_document_chunks call committed
    embedding_cache,  \* redis keys embedding:<md5(text)> : text -> stored value
    search_cache,     \* redis keys search:<query_hash>:<cache_id> : key -> entry
    search,           \* the search_similar_chunks call in flight, or Idle
    enabled,          \* RedisService.enabled
    embed,            \* the last generate_embeddings call of a caller, with its inputs
    context,          \* the last get_relevant_context call: its candidates and its result
    chunking,         \* the chunk_text call in progress: its arguments and its locals
    submitted,        \* the last submit_*_processing call: its reference and its outcome
    enhanced          \* the last text enhanced for add and for search, with both results

vars == <<processes, queue, is_running, consumers, document_chunks, added,
          embedding_cache, search_cache, search, enabled, embed, context,
          chunking, submitted, enhanced>>

schedVars == <<processes, queue, is_running, consumers>>
storeVars == <<document_chunks, added>>
cacheVars == <<embedding_cache, search_cache, enabled>>
\* the calls that are checked on their own
unitVars == <<embed, context, chunking, submitted, enhanced>>

(* ------------------------------ job table ------------------------------ *)
QUEUED == "queued"
PROCESSING == "processing"
COMPLETED == "completed"
FAILED == "failed"
None == "None"
Now == "now"          \* datetime.now(): only set / unset is modelled

Terminal(s) == s \in {COMPLETED, FAILED}

\* ProcessInfo(...) as built by submit_document_processing
NewProcessInfo(pid, post) ==
    [process_id |-> pid, post_id |-> post, status |-> QUEUED, progress |-> 0,
     message |-> "Queued for processing", created_at |-> Now,
     started_at |-> None, completed_at |-> None, error_message |-> None]

\* assignment of message and progress at the head of a pipeline stage
Stage(info, msg, pct) == [info EXCEPT !.message = msg, !.progress = pct]

\* Started without the assignment of status
Started_NoStatus(info) ==
    [info EXCEPT !.started_at = Now,
                 !.message = "Starting document processing", !.progress = 5]

\* first statements of the try block of _process_document
Started(info) ==
    [info EXCEPT !.status = PROCESSING, !.started_at = Now,
                 !.message = "Starting document processing", !.progress = 5]

\* Completed without the completion timestamp
Completed_NoTimestamp(info, nchunks) ==
    [info EXCEPT !.status = COMPLETED, !.progress = 100,
                 !.message = "Successfully processed " \o ToString(nchunks) \o " chunks"]

\* the "Complete" block of _process_document
Completed(info, nchunks) ==
    [info EXCEPT !.status = COMPLETED, !.progress = 100,
                 !.message = "Successfully processed " \o ToString(nchunks) \o " chunks",
                 !.completed_at = Now]

\* Failed with the progress put back to 0
Failed_ResetsProgress(info, e) ==
    [info EXCEPT !.status = FAILED, !.error_message = e, !.progress = 0,
                 !.message = "Processing failed: " \o e,
                 !.completed_at = Now]

\* the except block of _process_document; e is str(e)
Failed(info, e) ==
    [info EXCEPT !.status = FAILED, !.error_message = e,
                 !.message = "Processing failed: " \o e,
                 !.completed_at = Now]

\* FetchException without the "Failed to process document: " prefix
FetchException_Raw(err) == err

\* the exception raised when process_document reports success = False
FetchException(err) == "Failed to process document: " \o err

(* ------------------------------ start / stop --------------------------- *)
Dead(c) == consumers[c].pc = "dead"
FreeSlot == CHOOSE c \in Slots : Dead(c) /\ \A d \in Slots : Dead(d) => c <= d

\* BackgroundProcessor.start
Start ==
    /\ IF is_running
       THEN UNCHANGED <<is_running, consumers>>
       ELSE /\ \E c \in Slots : Dead(c)
            /\ is_running' = TRUE
            /\ consumers' = [consumers EXCEPT ![FreeSlot] = [pc |-> "check", item |-> 0]]
    /\ UNCHANGED <<processes, queue, storeVars, cacheVars, search, unitVars>>

\* BackgroundProcessor.stop
Stop ==
    /\ is_running' = FALSE
    /\ UNCHANGED <<processes, queue, consumers, storeVars, cacheVars, search, unitVars>>

\* a submit that waits until no consumer is in the middle of a job
Submit_WhenIdle(post) ==
    /\ Len(processes) < MaxJobs
    /\ \A c \in Slots : consumers[c].item = 0
    /\ LET pid == Len(processes) + 1 IN
         /\ processes' = Append(processes, NewProcessInfo(pid, post))
         /\ queue' = Append(queue, pid)
    /\ UNCHANGED <<is_running, consumers, storeVars, cacheVars, search, unitVars>>

\* BackgroundProcessor.submit_document_processing for a post that has a document
Submit(post) ==
    /\ Len(processes) < MaxJobs
    /\ LET pid == Len(processes) + 1 IN
         /\ processes' = Append(processes, NewProcessInfo(pid, post))
         /\ queue' = Append(queue, pid)
    /\ UNCHANGED <<is_running, consumers, storeVars, cacheVars, search, unitVars>>

\* BackgroundProcessor.get_process_status on a job table
GetProcessStatus(table, process_id) ==
    IF process_id \in DOMAIN table THEN table[process_id] ELSE None

\* the references handed to the submit calls: the post row the query of
\* submit_document_processing returns (NoRow: no such post) with its doc_url
\* and doc_name, and the file_path and doc_name of submit_file_processing;
\* a location or a name may be missing (None) or empty
Locations == {None, "", "loc"}
Names == {None, "", "name"}
NoRow == [found |-> FALSE, doc_url |-> None, doc_name |-> None]
PostRows ==
    {NoRow} \cup {[found |-> TRUE, doc_url |-> u, doc_name |-> n] : u \in Locations, n \in Names}

\* `not x` for a value that is None or a string
Not(x) == x \in {None, ""}

\* process_id 0: no process id was returned
NoSubmit == [entry |-> "none", post_id |-> 0, location |-> None, doc_name |-> None,
             raised |-> None, process_id |-> 0]

\* BackgroundProcessor.submit_document_processing for the post row the
\* database returns: ValueError for no row, or a row without doc_url or
\* doc_name; else the job is created and enqueued
SubmitDocumentProcessing(post_id, post_row) ==
    /\ Len(processes) < MaxJobs
    /\ IF ~post_row.found
       THEN /\ submitted' = [NoSubmit EXCEPT !.entry = "document", !.post_id = post_id,
                                             !.raised = "ValueError"]
            /\ UNCHANGED <<processes, queue>>
       ELSE IF Not(post_row.doc_url) \/ Not(post_row.doc_name)
       THEN /\ submitted' = [entry |-> "document", post_id |-> post_id,
                             location |-> post_row.doc_url, doc_name |-> post_row.doc_name,
                             raised |-> "ValueError", process_id |-> 0]
            /\ UNCHANGED <<processes, queue>>
       ELSE LET pid == Len(processes) + 1 IN
              /\ processes' = Append(processes, NewProcessInfo(pid, post_id))
              /\ queue' = Append(queue, pid)
              /\ submitted' = [entry |-> "document", post_id |-> post_id,
                               location |-> post_row.doc_url, doc_name |-> post_row.doc_name,
                               raised |-> None, process_id |-> pid]
    /\ UNCHANGED <<is_running, consumers, storeVars, cacheVars, search, embed, context,
                   chunking, enhanced>>

\* BackgroundProcessor.submit_file_processing: the job is created and
\* enqueued for any file_path and doc_name
SubmitFileProcessing(post_id, file_path, doc_name) ==
    /\ Len(processes) < MaxJobs
    /\ LET pid == Len(processes) + 1 IN
         /\ processes' = Append(processes, NewProcessInfo(pid, post_id))
         /\ queue' = Append(queue, pid)
         /\ submitted' = [entry |-> "file", post_id |-> post_id, location |-> file_path,
                          doc_name |-> doc_name, raised |-> None, process_id |-> pid]
    /\ UNCHANGED <<is_running, consumers, storeVars, cacheVars, search, embed, context,
                   chunking, enhanced>>

(* ------------------------------ consumer loop -------------------------- *)
At(c, pc) == consumers[c].pc = pc
Goto(c, pc) == consumers' = [consumers EXCEPT ![c].pc = pc]
Job(c) == consumers[c].item
SetInfo(pid, info) == processes' = [processes EXCEPT ![pid] = info]

\* `while self.is_running:` of _process_queue
ConsumerCheck(c) ==
    /\ At(c, "check")
    /\ consumers' = [consumers EXCEPT ![c] =
                        [pc |-> IF is_running THEN "get" ELSE "dead", item |-> 0]]
    /\ UNCHANGED <<processes, queue, is_running, storeVars, cacheVars, search, unitVars>>

\* a get that hands out the first item and leaves it in the queue
ConsumerGet_Peek(c) ==
    /\ At(c, "get")
    /\ queue # <<>>
    /\ consumers' = [consumers EXCEPT ![c] = [pc |-> "begin", item |-> Head(queue)]]
    /\ UNCHANGED <<processes, queue, is_running, storeVars, cacheVars, search, unitVars>>

\* wait_for(self.queue.get(), timeout=1.0) returns an item
ConsumerGet(c) ==
    /\ At(c, "get")
    /\ queue # <<>>
    /\ consumers' = [consumers EXCEPT ![c] = [pc |-> "begin", item |-> Head(queue)]]
    /\ queue' = Tail(queue)
    /\ UNCHANGED <<processes, is_running, storeVars, cacheVars, search, unitVars>>

\* wait_for(...) times out on an empty queue: `continue`
ConsumerTimeout(c) ==
    /\ At(c, "get")
    /\ queue = <<>>
    /\ Goto(c, "check")
    /\ UNCHANGED <<processes, queue, is_running, storeVars, cacheVars, search, unitVars>>

(* ------------------------------ documents ------------------------------ *)
\* document names in the model contain no ".pdf", "_" or "-", so the topic
\* enhance_chunk_for_embedding derives from doc_name is the name itself
DocName(post) == "doc" \o ToString(post)
ChunkText(post, i) == "post" \o ToString(post) \o " chunk" \o ToString(i)

\* the chunk list of every document, computed once
ChunkLists == [post \in Posts |-> [i \in 1..ChunksPerDoc |-> ChunkText(post, i)]]

\* doc_processor.chunk_text(parsed_content): the chunk list of a document
Chunks(post) == ChunkLists[post]

\* enhance_chunk_for_embedding with the metadata _process_document builds
\* (no subject, no page_number)
EnhanceChunk(chunk, doc_name) == "Topic: " \o doc_name \o "\nContent: " \o chunk

\* the enhanced chunk list of every document, computed once
EnhancedLists ==
    [post \in Posts |-> [i \in 1..ChunksPerDoc |-> EnhanceChunk(Chunks(post)[i], DocName(post))]]

\* enhanced_chunks of add_document_chunks: enhance_chunk_for_embedding
\* applied to each chunk of the document
EnhancedChunks(post) == EnhancedLists[post]

(* ------------------------------ embeddings ----------------------------- *)
\* the vector the provider answers for a text (text-embedding-3-large is
\* taken to be a function of the text); md5 of the text is taken to be
\* collision free, so cache entries are keyed by the text
ProviderVector(text) == <<"embedding", text>>

\* openai_client.embeddings.create(input=...): one vector per input, in order
EmbeddingsCreate(input) == [i \in 1..Len(input) |-> ProviderVector(input[i])]

\* _serialize_value of a list: json.dumps
SerializeValue(value) == [json |-> value]

\* _deserialize_value(value, "json"): json.loads
DeserializeValue(value) == value.json

\* get_cached_embedding: redis get, None when the service is disabled, the
\* get raises (get_fails) or the key is absent
GetCachedEmbedding(cache, on, text, get_fails) ==
    IF ~on \/ text \in get_fails \/ text \notin DOMAIN cache
    THEN None
    ELSE DeserializeValue(cache[text])

\* cache_embedding that writes nothing
CacheEmbedding_Dropped(cache, on, text, embedding, set_fails) == cache

\* cache_embedding: redis setex, dropped when the service is disabled or the
\* set raises (set_fails)
CacheEmbedding(cache, on, text, embedding, set_fails) ==
    IF ~on \/ text \in set_fails
    THEN cache
    ELSE [k \in DOMAIN cache \cup {text} |->
             IF k = text THEN SerializeValue(embedding) ELSE cache[k]]

\* the value a singleton set holds; it binds a local that the code assigns
\* once to the value assigned
The(S) == CHOOSE x \in S : TRUE

\* a position of cache_keys that holds a text to generate
IsMarked(cache_key) == cache_key # None

\* texts_to_generate that holds every input text
TextsToGenerate_All(texts, cache_keys) == texts

\* texts_to_generate: a text is appended to it exactly where it is appended
\* to cache_keys, so it is the marked entries of cache_keys in input order
TextsToGenerate(texts, cache_keys) == SelectSeq(cache_keys, IsMarked)

\* gen_index that is never advanced
GenIndex_Stuck(cache_keys, i) == 1

\* position in generated_embeddings read when embeddings[i] is filled:
\* gen_index has been advanced once for every earlier marked position
GenIndex(cache_keys, i) == Cardinality({j \in 1..i : cache_keys[j] # None})

\* a loop that caches, under every marked key, the vector of the last position
CacheGenerated_LastVector(cache, on, cache_keys, embeddings, set_fails, i) ==
    LET written == IF on
                   THEN {cache_keys[j] : j \in {k \in i..Len(cache_keys) : cache_keys[k] # None}}
                        \ set_fails
                   ELSE {}
    IN  [k \in DOMAIN cache \cup written |->
            IF k \in written THEN SerializeValue(embeddings[Len(embeddings)]) ELSE cache[k]]

\* the loop "for i, cache_key in enumerate(cache_keys)" from position i on:
\* the cache after its cache_embedding calls
RECURSIVE CacheGenerated(_, _, _, _, _, _)
CacheGenerated(cache, on, cache_keys, embeddings, set_fails, i) ==
    IF i > Len(cache_keys)
    THEN cache
    ELSE The({CacheGenerated(next, on, cache_keys, embeddings, set_fails, i + 1)
              : next \in {IF cache_keys[i] # None
                          THEN CacheEmbedding(cache, on, cache_keys[i], embeddings[i], set_fails)
                          ELSE cache}})

\* a provider failure that still hands back the cached vectors
Raised_Partial(embeddings, input, cache) ==
    [ok |-> FALSE, embeddings |-> embeddings, called |-> TRUE, input |-> input, cache |-> cache]

\* the except block of generate_embeddings: log and re-raise
Raised(embeddings, input, cache) ==
    [ok |-> FALSE, embeddings |-> <<>>, called |-> TRUE, input |-> input, cache |-> cache]

\* generate_embeddings from "if texts_to_generate:" on, with the lists its
\* first loop has built
Generate(texts, cached, cache_keys, texts_to_generate, cache, on, set_fails, provider_ok) ==
    IF texts_to_generate = <<>>
    THEN [ok |-> TRUE, embeddings |-> cached, called |-> FALSE, input |-> <<>>, cache |-> cache]
    ELSE IF ~provider_ok
    THEN Raised(cached, texts_to_generate, cache)
    ELSE The({The({[ok |-> TRUE, embeddings |-> embeddings, called |-> TRUE,
                    input |-> texts_to_generate,
                    cache |-> CacheGenerated(cache, on, cache_keys, embeddings, set_fails, 1)]
                   : embeddings \in {[i \in 1..Len(texts) |->
                                        IF cache_keys[i] # None
                                        THEN generated_embeddings[GenIndex(cache_keys, i)]
                                        ELSE cached[i]]}})
              : generated_embeddings \in {EmbeddingsCreate(texts_to_generate)}})

\* generate_embeddings(texts) run on a cache: what it returns or that it
\* raised, the provider call it made, and the cache it leaves
GenerateEmbeddings(texts, cache, on, get_fails, set_fails, provider_ok) ==
    The({The({The({Generate(texts, cached, cache_keys, texts_to_generate,
                            cache, on, set_fails, provider_ok)
                   : texts_to_generate \in {TextsToGenerate(texts, cache_keys)}})
              : cache_keys \in {[i \in 1..Len(texts) |->
                                   IF cached[i] # None THEN None ELSE texts[i]]}})
         : cached \in {[i \in 1..Len(texts) |->
                          GetCachedEmbedding(cache, on, texts[i], get_fails)]}})

\* the lists a caller passes to generate_embeddings
Batches == UNION {[1..n -> Texts] : n \in 0..MaxBatch}

\* the keys whose redis command raises during one call: none, or all of
\* them (the service is unreachable)
RedisErrors == {{}, Texts}

NoCall == [n |-> 0, texts |-> <<>>, ok |-> TRUE, embeddings |-> <<>>, called |-> FALSE,
           input |-> <<>>, hits |-> {}, get_fails |-> {}, set_fails |-> {}, expired |-> {}]

\* one generate_embeddings call of a caller that makes its calls one after
\* the other; embed keeps the call, its outcome and what failed in redis
Embed(texts, get_fails, set_fails, provider_ok) ==
    /\ embed.n < MaxEmbedCalls
    /\ \E g \in {GenerateEmbeddings(texts, embedding_cache, enabled, get_fails, set_fails, provider_ok)} :
           /\ embedding_cache' = g.cache
           /\ embed' = [n |-> embed.n + 1, texts |-> texts, ok |-> g.ok,
                        embeddings |-> g.embeddings, called |-> g.called, input |-> g.input,
                        hits |-> {texts[i] : i \in {j \in 1..Len(texts) :
                                     GetCachedEmbedding(embedding_cache, enabled, texts[j], get_fails) # None}},
                        get_fails |-> get_fails, set_fails |-> set_fails, expired |-> {}]
    /\ UNCHANGED <<schedVars, storeVars, search_cache, enabled, search, context, chunking, submitted, enhanced>>

\* an embedding:<md5> key reaches its TTL (86400 s) between two calls
ExpireEmbedding(text) ==
    /\ text \in DOMAIN embedding_cache
    /\ embedding_cache' = [k \in DOMAIN embedding_cache \ {text} |-> embedding_cache[k]]
    /\ embed' = [embed EXCEPT !.expired = @ \cup {text}]
    /\ UNCHANGED <<schedVars, storeVars, search_cache, enabled, search, context, chunking, submitted, enhanced>>

(* ------------------------------ the index ------------------------------ *)
\* the DocumentChunk objects add_document_chunks builds for one call
Batch(pid, post) ==
    {[job |-> pid, post_id |-> post, course_id |-> CourseOf(post),
      chunk_index |-> i - 1, chunk_text |-> Chunks(post)[i]] : i \in 1..ChunksPerDoc}

\* Transaction with every insert committed on its own
Transaction_Partial(rows, batch, failAt) ==
    IF failAt = 0 THEN rows \cup batch
    ELSE rows \cup {r \in batch : r.chunk_index + 1 < failAt}

\* db.add_all + db.commit inside one transaction; failAt = 0: every insert
\* succeeds and the commit makes the rows visible; failAt = i > 0: the i-th
\* insert fails and db.rollback() discards the transaction
Transaction(rows, batch, failAt) ==
    IF failAt = 0 THEN rows \cup batch ELSE rows

(* ------------------------------ the pipeline --------------------------- *)
Info(c) == processes[Job(c)]
PostOf(c) == Info(c).post_id

\* process_info.status = PROCESSING ... progress = 5.0
ProcessStart(c) ==
    /\ At(c, "begin")
    /\ SetInfo(Job(c), Started(Info(c)))
    /\ Goto(c, "p5")
    /\ UNCHANGED <<queue, is_running, storeVars, cacheVars, search, unitVars>>

\* Step 1 header: progress = 15.0, then process_document is called
StageFetch(c) ==
    /\ At(c, "p5")
    /\ SetInfo(Job(c), Stage(Info(c), "Processing document", 15))
    /\ Goto(c, "p15")
    /\ UNCHANGED <<queue, is_running, storeVars, cacheVars, search, unitVars>>

\* process_document returned success; Step 2 header: progress = 30.0
FetchSucceeds(c) ==
    /\ At(c, "p15")
    /\ SetInfo(Job(c), Stage(Info(c), "Generating document summary", 30))
    /\ Goto(c, "p30")
    /\ UNCHANGED <<queue, is_running, storeVars, cacheVars, search, unitVars>>

\* FetchFails with the exception escaping _process_queue: the task ends
FetchFails_ConsumerDies(c, err) ==
    /\ At(c, "p15")
    /\ SetInfo(Job(c), Failed(Info(c), FetchException(err)))
    /\ consumers' = [consumers EXCEPT ![c] = [pc |-> "dead", item |-> 0]]
    /\ UNCHANGED <<queue, is_running, storeVars, cacheVars, search, unitVars>>

\* process_document returned success = False (download or parse failed):
\* the exception is raised and handled by the except block; _process_queue
\* goes round its loop
FetchFails(c, err) ==
    /\ At(c, "p15")
    /\ SetInfo(Job(c), Failed(Info(c), FetchException(err)))
    /\ consumers' = [consumers EXCEPT ![c] = [pc |-> "check", item |-> 0]]
    /\ UNCHANGED <<queue, is_running, storeVars, cacheVars, search, unitVars>>

\* a Step 3 header at which a stopped scheduler abandons the job
StageChunk_Cancellable(c) ==
    /\ At(c, "p30")
    /\ IF is_running
       THEN /\ SetInfo(Job(c), Stage(Info(c), "Chunking document content", 45))
            /\ Goto(c, "p45")
       ELSE /\ consumers' = [consumers EXCEPT ![c] = [pc |-> "check", item |-> 0]]
            /\ UNCHANGED processes
    /\ UNCHANGED <<queue, is_running, storeVars, cacheVars, search, unitVars>>

\* generate_document_summary returned (it never raises); Step 3 header
StageChunk(c) ==
    /\ At(c, "p30")
    /\ SetInfo(Job(c), Stage(Info(c), "Chunking document content", 45))
    /\ Goto(c, "p45")
    /\ UNCHANGED <<queue, is_running, storeVars, cacheVars, search, unitVars>>

\* chunk_text returned; Step 4 header
StageMetadata(c) ==
    /\ At(c, "p45")
    /\ SetInfo(Job(c), Stage(Info(c), "Preparing chunk metadata", 60))
    /\ Goto(c, "p60")
    /\ UNCHANGED <<queue, is_running, storeVars, cacheVars, search, unitVars>>

\* metadata_list built; Step 5 header, add_document_chunks goes to a thread
StageStore(c) ==
    /\ At(c, "p60")
    /\ SetInfo(Job(c), Stage(Info(c), "Storing chunks in vector database", 75))
    /\ Goto(c, "p75")
    /\ UNCHANGED <<queue, is_running, storeVars, cacheVars, search, unitVars>>

\* add_document_chunks, first half: enhance the chunks and generate_embeddings.
\* With cache misses the provider is called once; if it raises, the except
\* block of add_document_chunks rolls back and the call returns False.
AddEmbed(c) ==
    /\ At(c, "p75")
    /\ \E provider_ok \in BOOLEAN :
          \E g \in {GenerateEmbeddings(EnhancedChunks(PostOf(c)), embedding_cache, enabled,
                                      {}, {}, provider_ok)} :
              /\ embedding_cache' = g.cache
              /\ Goto(c, IF g.ok THEN "persist" ELSE "add_returned")
    /\ UNCHANGED <<processes, queue, is_running, storeVars, search_cache, enabled, search, unitVars>>

\* add_document_chunks, second half: db.add_all, db.commit / db.rollback
AddPersist(c) ==
    /\ At(c, "persist")
    /\ \E failAt \in 0..ChunksPerDoc :
         /\ document_chunks' = Transaction(document_chunks, Batch(Job(c), PostOf(c)), failAt)
         /\ added' = IF failAt = 0 THEN added \cup {Job(c)} ELSE added
    /\ Goto(c, "add_returned")
    /\ UNCHANGED <<processes, queue, is_running, cacheVars, search, unitVars>>

\* the awaited add_document_chunks returned (its result is not looked at);
\* Step 6 header, store_document_summary goes to a thread
StageSummary(c) ==
    /\ At(c, "add_returned")
    /\ SetInfo(Job(c), Stage(Info(c), "Storing document summary", 90))
    /\ Goto(c, "p90")
    /\ UNCHANGED <<queue, is_running, storeVars, cacheVars, search, unitVars>>

\* store_document_summary returned (it never raises); Step 7 header
StageCache(c) ==
    /\ At(c, "p90")
    /\ SetInfo(Job(c), Stage(Info(c), "Updating cache", 95))
    /\ Goto(c, "p95")
    /\ UNCHANGED <<queue, is_running, storeVars, cacheVars, search, unitVars>>

\* redis_service.invalidate_course_cache: delete_pattern("search:*:<course_id>")
\* removes the entries whose key ends in the course id; when the cache is
\* disabled or the command raises, delete_pattern returns 0 and nothing is
\* removed
InvalidateCourse(cache, course_id, redis_ok) ==
    IF enabled /\ redis_ok
    THEN [k \in {key \in DOMAIN cache : key[2] # course_id} |-> cache[k]]
    ELSE cache

\* Step 7 body and the Complete block; _process_queue goes round its loop
Complete(c) ==
    /\ At(c, "p95")
    /\ \E redis_ok \in BOOLEAN :
          search_cache' = InvalidateCourse(search_cache, CourseOf(PostOf(c)), redis_ok)
    /\ SetInfo(Job(c), Completed(Info(c), ChunksPerDoc))
    /\ consumers' = [consumers EXCEPT ![c] = [pc |-> "check", item |-> 0]]
    /\ UNCHANGED <<queue, is_running, storeVars, embedding_cache, enabled, search, unitVars>>

(* ------------------------------ delete --------------------------------- *)
\* DeleteRows removing the rows of one ingestion of the post only
DeleteRows_OneIngestion(rows, post, ok) ==
    IF ok
    THEN {r \in rows : r.post_id # post \/ \E o \in rows : o.post_id = post /\ o.job < r.job}
    ELSE rows

\* a delete whose WHERE clause names the course of the post
DeleteRows_ByCourse(rows, post, ok) ==
    IF ok THEN {r \in rows : r.course_id # CourseOf(post)} ELSE rows

\* delete_document_chunks: DELETE ... WHERE post_id = :post_id, then commit;
\* on an exception the transaction is rolled back.  No cache is touched.
DeleteRows(rows, post, ok) ==
    IF ok THEN {r \in rows : r.post_id # post} ELSE rows

Delete(post) ==
    /\ \E ok \in BOOLEAN : document_chunks' = DeleteRows(document_chunks, post, ok)
    /\ UNCHANGED <<schedVars, added, cacheVars, search, unitVars>>

\* get_post_document_count: SELECT count(*) ... WHERE post_id = :post_id
PostDocumentCount(rows, post) == Cardinality({r \in rows : r.post_id = post})

(* ------------------------------ search --------------------------------- *)
\* a search scope is <<post_id, course_id>>, 0 standing for None
Scopes == {<<p, 0>> : p \in Posts} \cup {<<0, c>> : c \in Courses}

\* cache_id = post_id if post_id else (course_id or 0)
CacheId(scope) == IF scope[1] # 0 THEN scope[1] ELSE scope[2]

\* md5(f"{enhanced_query}:{n_results}") : distinct pairs give distinct hashes
QueryHash(query, n) == <<query, n>>

\* _generate_key("search", query_hash, course_id)
SearchKey(query, n, scope) == <<QueryHash(query, n), CacheId(scope)>>

\* the WHERE clause of the three SQL queries
InScope(r, scope) ==
    IF scope[1] # 0 THEN r.post_id = scope[1]
    ELSE IF scope[2] # 0 THEN r.course_id = scope[2]
    ELSE TRUE

\* 1 - cosine distance of the row's embedding to the query embedding, in
\* tenths: earlier chunks of a document are closer to the query
Similarity(query, r) == 9 - r.chunk_index

\* ORDER BY embedding <=> query LIMIT n; rows at the same distance come in
\* the order of their insertion
Closest(query, rows) ==
    CHOOSE r \in rows : \A o \in rows :
        \/ Similarity(query, r) > Similarity(query, o)
        \/ Similarity(query, r) = Similarity(query, o) /\ r.job <= o.job

RECURSIVE NearestRows(_, _, _)
NearestRows(query, rows, n) ==
    IF n = 0 \/ rows = {} THEN <<>>
    ELSE LET r == Closest(query, rows)
         IN  <<r>> \o NearestRows(query, rows \ {r}, n - 1)

\* get_cached_similarity_search that answers from the store although the
\* get raised
CachedResults_Unguarded(key, redis_ok) ==
    IF key \in DOMAIN search_cache /\ search_cache[key].results # <<>>
    THEN search_cache[key] ELSE [results |-> <<>>, asof |-> {}, scope |-> <<0, 0>>]

\* get_cached_similarity_search followed by `if cached_results:` : a disabled
\* cache, a get that raises (redis_ok false: RedisService.get logs it and
\* returns None), a missing key and a cached empty list all count as a miss
CachedResults(key, redis_ok) ==
    IF enabled /\ redis_ok /\ key \in DOMAIN search_cache /\ search_cache[key].results # <<>>
    THEN search_cache[key] ELSE [results |-> <<>>, asof |-> {}, scope |-> <<0, 0>>]

\* redis_service.cache_similarity_search; RedisService.set returns False
\* when the cache is disabled or the set raises
CacheSearch(cache, key, entry, redis_ok) ==
    IF enabled /\ redis_ok
    THEN [k \in DOMAIN cache \cup {key} |-> IF k = key THEN entry ELSE cache[k]]
    ELSE cache

Idle == [pc |-> "idle", query |-> "", scope |-> <<0, 0>>, results |-> <<>>, asof |-> {},
         redis_ok |-> TRUE]

\* search_similar_chunks up to its return on a cache hit, or up to the end
\* of the SQL query on a miss.  asof is history: the add calls that had
\* committed when the result list was read from the table (a cache entry
\* keeps it, and the scope of the call that read the list); redis_ok tells
\* whether the redis server answers during this call.
SearchBegin(query, scope, redis_ok) ==
    /\ search = Idle
    /\ LET hit == CachedResults(SearchKey(query, n_results, scope), redis_ok)
           down == IF redis_ok THEN {} ELSE {query}
       IN  IF hit.results # <<>>
           THEN /\ search' = [pc |-> "hit", query |-> query, scope |-> scope,
                              results |-> hit.results, asof |-> hit.asof, redis_ok |-> redis_ok]
                /\ UNCHANGED embedding_cache
           ELSE \E provider_ok, sql_ok \in BOOLEAN :
                  LET g == GenerateEmbeddings(<<query>>, embedding_cache, enabled, down, down,
                                              provider_ok)
                  IN  /\ embedding_cache' = g.cache
                      /\ search' =
                           IF g.ok /\ sql_ok
                           THEN [pc |-> "miss", query |-> query, scope |-> scope,
                                 results |-> NearestRows(query,
                                                {r \in document_chunks : InScope(r, scope)},
                                                n_results),
                                 asof |-> added, redis_ok |-> redis_ok]
                           ELSE \* except Exception: return []
                                [Idle EXCEPT !.pc = "failed", !.query = query, !.scope = scope,
                                             !.redis_ok = redis_ok]
    /\ UNCHANGED <<schedVars, storeVars, search_cache, enabled, unitVars>>

\* the rest of search_similar_chunks: on a miss the formatted results are
\* cached, then the call returns
SearchEnd ==
    /\ search # Idle
    /\ search_cache' =
         IF search.pc = "miss"
         THEN CacheSearch(search_cache, SearchKey(search.query, n_results, search.scope),
                          [results |-> search.results, asof |-> search.asof,
                           scope |-> search.scope],
                          search.redis_ok)
         ELSE search_cache
    /\ search' = Idle
    /\ UNCHANGED <<schedVars, storeVars, embedding_cache, enabled, unitVars>>

\* a search entry reaches its time-to-live (ttl = 600)
ExpireSearch(key) ==
    /\ key \in DOMAIN search_cache
    /\ search_cache' = [k \in DOMAIN search_cache \ {key} |-> search_cache[k]]
    /\ UNCHANGED <<schedVars, storeVars, embedding_cache, enabled, search, unitVars>>

(* --------------------------- relevance filter -------------------------- *)
\* similarity scores in hundredths, on both sides of the two thresholds
Scores == {25, 35, 45}

\* a formatted result: content stands for the content and metadata of the
\* row; rows of a document ingested twice give equal results
Candidates == [content : {"x", "y"}, similarity_score : Scores]

\* result lists of search_similar_chunks: closest first
InitialResults ==
    {results \in UNION {[1..n -> Candidates] : n \in 0..MaxCandidates} :
        \A i, j \in DOMAIN results :
            i < j => results[i].similarity_score >= results[j].similarity_score}

\* the values a caller passes for max_chunks
Limits == {min_results, max_chunks}

\* first loop of get_relevant_context: similarity > 0.4
FilterPrimary(initial_results) ==
    SelectSeq(initial_results, LAMBDA chunk : chunk.similarity_score > primary_threshold)

\* a fallback that is never taken
TooFew_Never(filtered_results) == FALSE

\* if len(filtered_results) < 2
TooFew(filtered_results) == Len(filtered_results) < min_results

\* second loop of get_relevant_context from position i on: similarity > 0.3
\* and chunk not in filtered_results (equality of the dicts)
RECURSIVE MergeSecondary(_, _, _)
MergeSecondary(filtered_results, initial_results, i) ==
    IF i > Len(initial_results)
    THEN filtered_results
    ELSE LET chunk == initial_results[i]
         IN  MergeSecondary(IF /\ chunk.similarity_score > secondary_threshold
                               /\ chunk \notin {filtered_results[k] : k \in DOMAIN filtered_results}
                            THEN Append(filtered_results, chunk)
                            ELSE filtered_results,
                            initial_results, i + 1)

\* filtered_results[:max_chunks]
Prefix(seq, n) == SubSeq(seq, 1, IF n < Len(seq) THEN n ELSE Len(seq))

\* get_relevant_context after its search_similar_chunks call
RelevantContext(initial_results, limit) ==
    LET filtered_results == FilterPrimary(initial_results)
    IN  Prefix(IF TooFew(filtered_results)
               THEN MergeSecondary(filtered_results, initial_results, 1)
               ELSE filtered_results,
               limit)

NoContext == [n |-> 0, initial_results |-> <<>>, max_chunks |-> max_chunks, results |-> <<>>]

\* one get_relevant_context call on the list its search returned
GetRelevantContext(initial_results, limit) ==
    /\ context' = [n |-> 1, initial_results |-> initial_results, max_chunks |-> limit,
                   results |-> RelevantContext(initial_results, limit)]
    /\ UNCHANGED <<schedVars, storeVars, cacheVars, search, embed, chunking, submitted, enhanced>>

(* ------------------------------ chunker -------------------------------- *)
\* a text is its length, the offsets of its periods and the offsets of its
\* whitespace characters (what strip() removes); its other characters are
\* letters
TextLens == {500, 700, 1200, 1400}
DotPositions == {49 + 50 * i : i \in 0..27} \cup {500, 550}

RECURSIVE DotSets(_)
DotSets(k) ==
    IF k = 0 THEN {{}}
    ELSE {D \cup {p} : D \in DotSets(k - 1), p \in DotPositions} \cup DotSets(k - 1)

\* texts with whitespace: the empty text, the texts of up to three
\* characters, and texts that end in a run of whitespace
SpacedTexts ==
    {[len |-> n, dots |-> {}, spaces |-> S] : n \in 0..3, S \in SUBSET (0..2)}
    \cup {[len |-> 700, dots |-> {}, spaces |-> first..699] : first \in {600, 650}}

ChunkTexts ==
    {[len |-> n, dots |-> {p \in D : p < n}, spaces |-> {}] :
        n \in TextLens, D \in DotSets(MaxDots)}
    \cup {text \in SpacedTexts : \A p \in text.spaces : p < text.len}

\* the (chunk_size, overlap) pairs of the calls: the defaults, no overlap,
\* an overlap close to the chunk size, and overlaps that are not smaller
\* than the chunk size
ChunkParams ==
    {<<default_chunk_size, default_overlap>>,
     <<default_chunk_size, 0>>,
     <<default_chunk_size, default_chunk_size - 50>>,
     <<default_chunk_size, default_chunk_size>>,
     <<default_chunk_size, default_chunk_size + 50>>}

\* a slice index as Python reads it: negative indices count from the end,
\* and the result is clamped to 0..len
SliceIndex(i, len) ==
    IF i < 0 THEN (IF len + i < 0 THEN 0 ELSE len + i)
    ELSE IF i > len THEN len ELSE i

\* text.rfind('.', start, end): the last period in the slice, or -1
RFind(text, start, end) ==
    LET found == {p \in text.dots : SliceIndex(start, text.len) <= p
                                    /\ p < SliceIndex(end, text.len)}
    IN  IF found = {} THEN -1 ELSE CHOOSE p \in found : \A q \in found : q <= p

\* text[from:to].strip() as the slice that is left: from its first to its
\* last character that is not whitespace; an empty slice when there is none
Strip(text, from, to) ==
    IF text.spaces = {} \/ from >= to THEN <<from, to>>
    ELSE LET kept == {p \in from..(to - 1) : p \notin text.spaces}
         IN  IF kept = {} THEN <<from, from>>
             ELSE <<CHOOSE p \in kept : \A q \in kept : p <= q,
                    (CHOOSE p \in kept : \A q \in kept : q <= p) + 1>>

\* a window end that is never moved to a sentence boundary
WindowEnd_NoCut(text, start, chunk_size) == start + chunk_size

\* end = start + chunk_size, moved to just after the last period of the
\* window when that period lies in its last 100 characters and the window
\* ends before the text does
WindowEnd(text, start, chunk_size) ==
    LET end == start + chunk_size
        sentence_end == RFind(text, start, end)
    IN  IF end < text.len /\ sentence_end > start + chunk_size - sentence_window
        THEN sentence_end + 1
        ELSE end

NoChunking == [pc |-> "idle", text |-> [len |-> 0, dots |-> {}, spaces |-> {}],
               page_map |-> <<>>, chunk_size |-> 0, overlap |-> 0, start |-> 0,
               chunks |-> <<>>, iterations |-> 0]

\* chunk_text up to its loop: a text that fits in one chunk is returned as is
ChunkStart(text, chunk_size, overlap) ==
    IF text.len <= chunk_size
    THEN [NoChunking EXCEPT !.pc = "returned", !.text = text, !.chunk_size = chunk_size,
                            !.overlap = overlap, !.chunks = <<<<0, text.len>>>>]
    ELSE [NoChunking EXCEPT !.pc = "loop", !.text = text, !.chunk_size = chunk_size,
                            !.overlap = overlap]

ChunkBegin(text, chunk_size, overlap) ==
    /\ chunking = NoChunking
    /\ chunking' = ChunkStart(text, chunk_size, overlap)
    /\ UNCHANGED <<schedVars, storeVars, cacheVars, search, embed, context, submitted, enhanced>>

\* a pass that appends the slice as it is
ChunkPass_Unstripped(call) ==
    LET text == call.text
        start == call.start
        end == WindowEnd(text, start, call.chunk_size)
        chunk == <<SliceIndex(start, text.len), SliceIndex(end, text.len)>>
        next == end - call.overlap
    IN  [call EXCEPT
           !.chunks = IF chunk[1] < chunk[2] THEN Append(@, chunk) ELSE @,
           !.start = next,
           !.iterations = @ + 1,
           !.pc = IF next < text.len THEN "loop" ELSE "returned"]

\* one pass of "while start < len(text)"; chunks holds the stripped slices
\* text[start:end].strip() that were appended, as <<first offset, end offset>>
ChunkPass(call) ==
    LET text == call.text
        start == call.start
        end == WindowEnd(text, start, call.chunk_size)
        chunk == Strip(text, SliceIndex(start, text.len), SliceIndex(end, text.len))
        next == end - call.overlap
    IN  [call EXCEPT
           !.chunks = IF chunk[1] < chunk[2] THEN Append(@, chunk) ELSE @,
           !.start = next,
           !.iterations = @ + 1,
           !.pc = IF next < text.len THEN "loop" ELSE "returned"]

ChunkIterate ==
    /\ chunking.pc = "loop"
    /\ chunking.iterations < MaxIterations
    /\ chunking' = ChunkPass(chunking)
    /\ UNCHANGED <<schedVars, storeVars, cacheVars, search, embed, context, submitted, enhanced>>

\* the pages the parser got, as the lengths of their texts (0: a page
\* without text), and the page map parse_pdf_with_llama builds from them
PageLens == {0, 300, 500}
PageLists == UNION {[1..k -> PageLens] : k \in 0..MaxPages}

RECURSIVE PageMapFrom(_, _, _)
PageMapFrom(pages, page_num, current_position) ==
    IF page_num > Len(pages) THEN <<>>
    ELSE IF pages[page_num] = 0 THEN PageMapFrom(pages, page_num + 1, current_position)
    ELSE <<[start |-> current_position, end |-> current_position + pages[page_num],
            page |-> page_num]>>
         \o PageMapFrom(pages, page_num + 1, current_position + pages[page_num] + 1)

PageMaps == {PageMapFrom(pages, 1, 0) : pages \in PageLists}

\* the texts handed to chunk_text_with_pages
PagedTexts ==
    {[len |-> n, dots |-> {p \in D : p < n}, spaces |-> {}] : n \in TextLens, D \in DotSets(1)}
    \cup {text \in SpacedTexts : \A p \in text.spaces : p < text.len}

\* a lookup that falls back to the first page of the map
FindPageForPosition_FirstPage(position, page_map) ==
    LET found == {i \in DOMAIN page_map :
                    page_map[i].start <= position /\ position <= page_map[i].end}
    IN  IF page_map = <<>> THEN None
        ELSE IF found = {} THEN page_map[1].page
        ELSE page_map[CHOOSE i \in found : \A j \in found : i <= j].page

\* _find_page_for_position: the page of the first span with
\* start <= position <= end, else the last page; None without a page map
FindPageForPosition(position, page_map) ==
    LET found == {i \in DOMAIN page_map :
                    page_map[i].start <= position /\ position <= page_map[i].end}
    IN  IF page_map = <<>> THEN None
        ELSE IF found = {} THEN page_map[Len(page_map)].page
        ELSE page_map[CHOOSE i \in found : \A j \in found : i <= j].page

\* chunk_text_with_pages up to its loop
ChunkPagesBegin(text, page_map, chunk_size, overlap) ==
    /\ chunking = NoChunking
    /\ chunking' =
         IF text.len <= chunk_size
         THEN [NoChunking EXCEPT
                 !.pc = "pages_returned", !.text = text, !.page_map = page_map,
                 !.chunk_size = chunk_size, !.overlap = overlap,
                 !.chunks = <<[text |-> <<0, text.len>>,
                               page_number |-> FindPageForPosition(0, page_map),
                               start_pos |-> 0, end_pos |-> text.len]>>]
         ELSE [NoChunking EXCEPT
                 !.pc = "pages_loop", !.text = text, !.page_map = page_map,
                 !.chunk_size = chunk_size, !.overlap = overlap]
    /\ UNCHANGED <<schedVars, storeVars, cacheVars, search, embed, context, submitted, enhanced>>

\* one pass of the loop of chunk_text_with_pages
ChunkPagesIterate ==
    /\ chunking.pc = "pages_loop"
    /\ chunking.iterations < MaxIterations
    /\ LET text == chunking.text
           start == chunking.start
           end == WindowEnd(text, start, chunking.chunk_size)
           chunk_text == Strip(text, SliceIndex(start, text.len), SliceIndex(end, text.len))
           next == end - chunking.overlap
       IN  chunking' = [chunking EXCEPT
                          !.chunks = IF chunk_text[1] < chunk_text[2]
                                     THEN Append(@, [text |-> chunk_text,
                                                     page_number |->
                                                       FindPageForPosition(start, chunking.page_map),
                                                     start_pos |-> start, end_pos |-> end])
                                     ELSE @,
                          !.start = next,
                          !.iterations = @ + 1,
                          !.pc = IF next < text.len THEN "pages_loop" ELSE "pages_returned"]
    /\ UNCHANGED <<schedVars, storeVars, cacheVars, search, embed, context, submitted, enhanced>>

(* ------------------------------ enhancement ---------------------------- *)
\* strings are sequences of characters here, so that equal strings are
\* equal sequences
SubjectLabel == <<"S", "u", "b", "j", "e", "c", "t", ":", " ">>
TopicLabel == <<"T", "o", "p", "i", "c", ":", " ">>
PageLabel == <<"P", "a", "g", "e", ":", " ">>
ContentLabel == <<"C", "o", "n", "t", "e", "n", "t", ":", " ">>
PdfSuffix == <<".", "p", "d", "f">>

\* the chunk texts, subjects, document names and page numbers of the calls;
\* an empty sequence is a value that is missing, None or '', page 0 a page
\* number that is missing, None or 0
EnhancedTexts == {<<>>, <<"a">>, <<"a", " ", "b">>, <<"C", "o", "n", "t", "e", "n", "t", ":", " ", "a">>}
Subjects == {<<>>, <<"S">>, <<"M", "a", "t", "h">>}
DocNames == {<<>>, <<"d">>, PdfSuffix, <<"C", "h", "_", "5", "-", "a", ".", "p", "d", "f">>}
PageNumbers == {0, 3, 12}

\* s.replace(old, new) for a non-empty old
RECURSIVE Replace(_, _, _)
Replace(s, old, new) ==
    IF Len(s) < Len(old) THEN s
    ELSE IF SubSeq(s, 1, Len(old)) = old
         THEN new \o Replace(SubSeq(s, Len(old) + 1, Len(s)), old, new)
         ELSE <<Head(s)>> \o Replace(Tail(s), old, new)

\* "\n".join(parts)
RECURSIVE Join(_)
Join(parts) ==
    IF parts = <<>> THEN <<>>
    ELSE IF Len(parts) = 1 THEN parts[1]
    ELSE parts[1] \o <<"\n">> \o Join(Tail(parts))

\* str(n) of a natural number
RECURSIVE Str(_)
Str(n) == IF n < 10 THEN <<ToString(n)>> ELSE Str(n \div 10) \o <<ToString(n % 10)>>

\* topic = doc_name.replace('.pdf', '').replace('_', ' ').replace('-', ' ')
TopicOf(doc_name) ==
    Replace(Replace(Replace(doc_name, PdfSuffix, <<>>), <<"_">>, <<" ">>), <<"-">>, <<" ">>)

\* the optional part f"{label}{value}" of an enhanced text
Part(label, value) == IF value = <<>> THEN <<>> ELSE <<label \o value>>

\* VectorStore.enhance_chunk_for_embedding
EnhanceChunkForEmbedding(chunk, metadata) ==
    Join(Part(SubjectLabel, metadata.subject)
         \o Part(TopicLabel, TopicOf(metadata.doc_name))
         \o (IF metadata.page_number # 0 THEN <<PageLabel \o Str(metadata.page_number)>>
             ELSE <<>>)
         \o <<ContentLabel \o chunk>>)

\* VectorStore.enhance_query_for_search
EnhanceQueryForSearch(query, subject, topic) ==
    Join(Part(SubjectLabel, subject) \o Part(TopicLabel, topic) \o <<ContentLabel \o query>>)

\* the text search_similar_chunks embeds: the query is enhanced only when a
\* subject or a topic is given
EnhancedQuery(query, subject, topic) ==
    IF subject # <<>> \/ topic # <<>> THEN EnhanceQueryForSearch(query, subject, topic)
    ELSE query

NoEnhancement == [called |-> FALSE, text |-> <<>>,
                  metadata |-> [subject |-> <<>>, doc_name |-> <<>>, page_number |-> 0],
                  enhanced_chunk |-> <<>>, enhanced_query |-> <<>>]

\* one text enhanced as a chunk by add_document_chunks, and as a query by
\* search_similar_chunks with the subject and the topic of the chunk
Enhance(text, metadata) ==
    /\ enhanced' = [called |-> TRUE, text |-> text, metadata |-> metadata,
                    enhanced_chunk |-> EnhanceChunkForEmbedding(text, metadata),
                    enhanced_query |->
                      EnhancedQuery(text, metadata.subject, TopicOf(metadata.doc_name))]
    /\ UNCHANGED <<schedVars, storeVars, cacheVars, search, embed, context, chunking,
                   submitted>>

(* ------------------------------ specification -------------------------- *)
Init ==
    /\ processes = <<>>
    /\ queue = <<>>
    /\ is_running = FALSE
    /\ consumers = [c \in Slots |-> [pc |-> "dead", item |-> 0]]
    /\ document_chunks = {}
    /\ added = {}
    /\ embedding_cache = [text \in {} |-> None]
    /\ search_cache = <<>>
    /\ search = Idle
    /\ enabled \in BOOLEAN
    /\ embed = NoCall
    /\ context = NoContext
    /\ chunking = NoChunking
    /\ submitted = NoSubmit
    /\ enhanced = NoEnhancement

ConsumerStep(c) ==
    \/ ConsumerCheck(c)
    \/ ConsumerGet(c)
    \/ ConsumerTimeout(c)
    \/ ProcessStart(c)
    \/ StageFetch(c)
    \/ FetchSucceeds(c)
    \/ \E err \in FetchErrors : FetchFails(c, err)
    \/ StageChunk(c)
    \/ StageMetadata(c)
    \/ StageStore(c)
    \/ AddEmbed(c)
    \/ AddPersist(c)
    \/ StageSummary(c)
    \/ StageCache(c)
    \/ Complete(c)

\* the scheduler: start / stop / submit and the consumer tasks; every
\* submission is for the same post (submissions are not deduplicated)
Next ==
    \/ Start
    \/ Stop
    \/ \E post \in Resubmitted : Submit(post)
    \/ \E c \in Slots : ConsumerStep(c)

Spec == Init /\ [][Next]_vars

\* the index and its caches, fed by the consumer that start() creates
IndexNext ==
    \/ Start
    \/ \E post \in Posts : Submit(post)
    \/ \E c \in Slots : ConsumerStep(c)
    \/ \E post \in Posts : Delete(post)
    \/ \E query \in Queries, scope \in Scopes : SearchBegin(query, scope, TRUE)
    \/ SearchEnd
    \/ \E key \in DOMAIN search_cache : ExpireSearch(key)

IndexSpec == Init /\ [][IndexNext]_vars

\* the table of chunk rows under the jobs and the deletes alone
StoreNext ==
    \/ Start
    \/ \E post \in Posts : Submit(post)
    \/ \E c \in Slots : ConsumerStep(c)
    \/ \E post \in Posts : Delete(post)

StoreSpec == Init /\ [][StoreNext]_vars

\* asyncio runs every ready task, and wait_for(..., timeout=1.0) always
\* returns: a consumer task that can take a step eventually takes one
LiveSpec == Spec /\ \A c \in Slots : WF_vars(ConsumerStep(c))

\* the index of one post that is ingested repeatedly, searched while the
\* redis server may be unreachable for the length of a search call
DegradedNext ==
    \/ Start
    \/ \E post \in Resubmitted : Submit(post)
    \/ \E c \in Slots : ConsumerStep(c)
    \/ \E query \in Queries, scope \in Scopes, redis_ok \in BOOLEAN :
          SearchBegin(query, scope, redis_ok)
    \/ SearchEnd
    \/ \E key \in DOMAIN search_cache : ExpireSearch(key)

DegradedSpec == Init /\ [][DegradedNext]_vars

\* generate_embeddings called in sequence on a cache that starts empty
EmbedNext ==
    \/ \E texts \in Batches, get_fails \in RedisErrors, set_fails \in RedisErrors,
          provider_ok \in BOOLEAN : Embed(texts, get_fails, set_fails, provider_ok)
    \/ \E text \in Texts : ExpireEmbedding(text)

EmbedSpec == Init /\ [][EmbedNext]_vars

\* get_relevant_context called on the result lists a search can return
ContextNext ==
    \E initial_results \in InitialResults, limit \in Limits :
        GetRelevantContext(initial_results, limit)

ContextSpec == Init /\ [][ContextNext]_vars

\* chunk_text called on a text
ChunkNext ==
    \/ /\ chunking.pc = "idle"
       /\ \E text \in ChunkTexts, params \in ChunkParams :
             ChunkBegin(text, params[1], params[2])
    \/ ChunkIterate

ChunkSpec == Init /\ [][ChunkNext]_vars

\* chunk_text_with_pages called on a text and a page map
PagesNext ==
    \/ /\ chunking.pc = "idle"
       /\ \E text \in PagedTexts, page_map \in PageMaps, params \in ChunkParams :
             ChunkPagesBegin(text, page_map, params[1], params[2])
    \/ ChunkPagesIterate

PagesSpec == Init /\ [][PagesNext]_vars

\* the two submit calls on any reference, before the consumer is started
SubmitNext ==
    \/ \E post_id \in Posts, post_row \in PostRows : SubmitDocumentProcessing(post_id, post_row)
    \/ \E post_id \in Posts, file_path \in Locations, doc_name \in Names :
          SubmitFileProcessing(post_id, file_path, doc_name)

SubmitSpec == Init /\ [][SubmitNext]_vars

\* a text enhanced for the index and for a search
EnhanceNext ==
    \E text \in EnhancedTexts, subject \in Subjects, doc_name \in DocNames,
       page_number \in PageNumbers :
        Enhance(text, [subject |-> subject, doc_name |-> doc_name, page_number |-> page_number])

EnhanceSpec == Init /\ [][EnhanceNext]_vars

(* ------------------------------ properties ----------------------------- *)
Ids == DOMAIN processes
StatusOf(j) == processes[j].status
RowsOf(rows, j) == {r \in rows : r.job = j}
StageValues == {0, 5, 15, 30, 45, 60, 75, 90, 95, 100}

\* C1: a job's status only moves queued -> processing and processing ->
\* completed or failed; a completed or failed job keeps its status, and no
\* job leaves the table
C1_StatusTransitions ==
    [][\A j \in Ids :
          /\ j \in DOMAIN processes'
          /\ \/ processes'[j].status = StatusOf(j)
             \/ StatusOf(j) = QUEUED /\ processes'[j].status = PROCESSING
             \/ StatusOf(j) = PROCESSING /\ processes'[j].status \in {COMPLETED, FAILED}]_vars

C1_Witness ==
    \E i, j \in Ids : StatusOf(i) = FAILED /\ StatusOf(j) = COMPLETED

\* C2: a job whose add_document_chunks call did not commit its rows never
\* ends completed: completed implies the rows of the job were persisted
C2_CompletedOnlyIfPersisted ==
    \A j \in Ids : StatusOf(j) = COMPLETED => j \in added

\* C3: when the fetch/parse stage of a job fails, the job is failed with a
\* non-empty error message and a completion timestamp, and the table holds
\* no chunk row of a failed job
C3_FetchFailure ==
    [][\A c \in Slots :
          (/\ consumers[c].pc = "p15"
           /\ consumers'[c].pc # "p15"
           /\ processes'[Job(c)].progress # 30)
          => LET info == processes'[Job(c)] IN
               /\ processes[Job(c)].status = PROCESSING
               /\ info.status = FAILED
               /\ info.error_message \notin {None, ""}
               /\ info.completed_at # None
               /\ RowsOf(document_chunks', Job(c)) = {}
               /\ Job(c) \notin added']_vars

C3_Witness ==
    \E j \in Ids : /\ StatusOf(j) = FAILED
                   /\ processes[j].error_message = "Failed to process document: "
                   /\ RowsOf(document_chunks, j) = {}

\* C4: while the scheduler keeps running, a job that is queued when some
\* job has failed is eventually taken off the queue and processed: no job
\* stays stalled for ever (a failed job stays failed and a queued job stays
\* queued until it is taken, so a stalled job stops being stalled only by
\* being taken or by a stop())
Dequeued(j) == j \in Ids /\ StatusOf(j) # QUEUED

\* a job waits in the queue of a running scheduler after some job has failed
Stalled(j) ==
    /\ j \in Ids
    /\ ~Dequeued(j)
    /\ is_running
    /\ \E i \in Ids : StatusOf(i) = FAILED

C4_FailureDoesNotStall ==
    \A j \in 1..MaxJobs : []<>(~Stalled(j))

C4_Witness ==
    \E i, j \in Ids : i < j /\ StatusOf(i) = FAILED /\ StatusOf(j) = PROCESSING

\* C5: at most one job is in status processing at any time
C5_OneJobInFlight ==
    Cardinality({j \in Ids : StatusOf(j) = PROCESSING}) <= 1

\* C6: jobs are processed in submission order, one after the other: a job
\* has left the queue only if every job submitted before it is terminal
C6_SubmissionOrder ==
    \A a, b \in Ids : (a < b /\ StatusOf(b) # QUEUED) => Terminal(StatusOf(a))

\* C7: progress never decreases and takes the stage values only, a queued
\* job has progress 0, and the record of a terminal job never changes
C7_ProgressMonotone ==
    [][\A j \in Ids :
          /\ processes'[j].progress >= processes[j].progress
          /\ processes'[j].progress \in StageValues
          /\ processes'[j].status = QUEUED => processes'[j].progress = 0
          /\ Terminal(StatusOf(j)) => processes'[j] = processes[j]]_vars

C7_Witness ==
    \E i, j \in Ids : /\ StatusOf(i) = FAILED /\ processes[i].progress = 15
                      /\ StatusOf(j) = COMPLETED /\ processes[j].progress = 100

\* C8: the table never holds a non-empty strict subset of the rows of one
\* add call, and a step in which an add call fails (embedding or insert)
\* leaves the table as it was
InAdd(c) == consumers[c].pc \in {"p75", "persist"}

C8_AddAllOrNothing ==
    [][/\ \A j \in Ids :
            Cardinality(RowsOf(document_chunks', j)) \in {0, ChunksPerDoc}
       /\ \A c \in Slots :
            (InAdd(c) /\ consumers'[c].pc = "add_returned" /\ Job(c) \notin added')
            => document_chunks' = document_chunks]_vars

C8_Witness ==
    \E c \in Slots :
        At(c, "add_returned") /\ Job(c) \notin added /\ document_chunks # {}

\* C9: a search never returns a cached result list that was computed before
\* an add to its scope which has since succeeded (its job is completed)
C9_NoStaleHitAfterAdd ==
    [][(search.pc = "idle" /\ search'.pc = "hit")
       => \A j \in added :
            (/\ StatusOf(j) = COMPLETED
             /\ \E r \in Batch(j, processes[j].post_id) : InScope(r, search'.scope))
            => j \in search'.asof]_vars

\* C10: a search never returns a row of a document whose rows have been
\* deleted: every returned row is in the table when the search starts
C10_NoDeletedRows ==
    [][(search.pc = "idle" /\ search'.pc \in {"hit", "miss"})
       => \A i \in 1..Len(search'.results) :
            \E r \in document_chunks :
                /\ r.post_id = search'.results[i].post_id
                /\ r.chunk_index = search'.results[i].chunk_index]_vars

\* C11: a step in which delete_document_chunks removes rows of a post
\* leaves get_post_document_count of that post at 0, however often the post
\* was ingested before
C11_DeleteThenCountZero ==
    [][\A post \in Posts :
          (\E r \in document_chunks \ document_chunks' : r.post_id = post)
          => PostDocumentCount(document_chunks', post) = 0]_vars

C11_Witness ==
    \E i, j \in added :
        /\ i # j
        /\ processes[i].post_id = processes[j].post_id
        /\ PostDocumentCount(document_chunks, processes[i].post_id) = 0

(* --------------------- generate_embeddings on its own ------------------- *)
Range(seq) == {seq[i] : i \in DOMAIN seq}

\* a step that is a generate_embeddings call following an earlier call
NextCall == embed.n >= 1 /\ embed'.n = embed.n + 1

\* provider calls of a generate_embeddings call that carry the text
ProviderCalls(call, text) == IF call.called /\ text \in Range(call.input) THEN 1 ELSE 0

\* the vectors a call returned for a text
VectorsFor(call, text) == {call.embeddings[i] : i \in {j \in DOMAIN call.texts : call.texts[j] = text}}

\* two calls in a row with a text in both, the first successful and the
\* key not expired in between: the second sends nothing for the text, the
\* two together call the provider once for it (not at all when the first
\* was served from the cache), and they return the same vector
SameTextTwice(text) ==
    /\ ProviderCalls(embed', text) = 0
    /\ ProviderCalls(embed, text) = (IF text \in embed.hits THEN 0 ELSE 1)
    /\ embed'.ok => VectorsFor(embed', text) = VectorsFor(embed, text)

\* C12, as stated: two generate_embeddings calls with the same text within
\* the TTL of its cache key make one provider call in total for it, and
\* return the same vector
C12_OneProviderCall ==
    [][\A text \in Texts :
          (/\ NextCall
           /\ embed.ok
           /\ text \in Range(embed.texts) \cap Range(embed'.texts)
           /\ text \notin embed.expired)
          => SameTextTwice(text)]_vars

\* C12, amended: the same, when redis is enabled, the first call's write of
\* the key and the second call's read of it did not raise
C12_OneProviderCallWhenCached ==
    [][\A text \in Texts :
          (/\ NextCall
           /\ embed.ok
           /\ text \in Range(embed.texts) \cap Range(embed'.texts)
           /\ text \notin embed.expired
           /\ enabled
           /\ text \notin embed.set_fails
           /\ text \notin embed'.get_fails)
          => SameTextTwice(text)]_vars

C12_Witness ==
    /\ embed.n = 2
    /\ enabled
    /\ embed.ok
    /\ embed.hits # {}
    /\ ~embed.called
    /\ embed.expired = {}

\* C13: a generate_embeddings call that returns gives one vector per input
\* text, the i-th being the vector of texts[i], whatever the mix of cache
\* hits and misses and also when a text occurs more than once
C13_OneVectorPerText ==
    (embed.n >= 1 /\ embed.ok)
    => /\ Len(embed.embeddings) = Len(embed.texts)
       /\ \A i \in DOMAIN embed.texts : embed.embeddings[i] = ProviderVector(embed.texts[i])

C13_Witness ==
    /\ embed.ok
    /\ embed.called
    /\ embed.hits # {}
    /\ \E i, j \in DOMAIN embed.texts : i < j /\ embed.texts[i] = embed.texts[j]

\* the texts of a call that were not served from the cache, in input order
MissedTexts(call) == SelectSeq(call.texts, LAMBDA text : text \notin call.hits)

\* C14: a generate_embeddings call sends the provider exactly the texts it
\* did not find in the cache, in input order, in its one request, and makes
\* no request when every text was found
C14_OneBatchOfMisses ==
    embed.n >= 1
    => /\ embed.called <=> MissedTexts(embed) # <<>>
       /\ embed.input = MissedTexts(embed)

C14_Witness ==
    /\ embed.called
    /\ embed.hits # {}
    /\ Len(embed.input) >= 2

\* C15: a generate_embeddings call whose provider request fails returns no
\* vector, not even for the texts found in the cache, and leaves the
\* embedding cache as it was
C15_FailureLeavesCache ==
    [][(embed'.n = embed.n + 1 /\ ~embed'.ok)
       => /\ embed'.embeddings = <<>>
          /\ embedding_cache' = embedding_cache]_vars

C15_Witness ==
    /\ ~embed.ok
    /\ embed.hits # {}
    /\ embedding_cache # <<>>

(* ------------------------- a cache that is down ------------------------- *)
\* redis is disabled, or unreachable while the search call runs
CacheDown(call) == ~enabled \/ ~call.redis_ok

\* what search_similar_chunks reads from the table when nothing is cached
FreshResults(query, scope) ==
    NearestRows(query, {r \in document_chunks : InScope(r, scope)}, n_results)

\* C16: with redis disabled or raising, a search is never served from the
\* cache and returns what a search on an empty cache returns, its result is
\* not written, nothing is written to either cache while redis is disabled,
\* and the cache invalidation at the end of a job still ends in COMPLETED
C16_CacheDegrades ==
    [][/\ (search = Idle /\ search' # Idle /\ CacheDown(search'))
          => /\ search'.pc \in {"miss", "failed"}
             /\ search'.pc = "miss"
                => search'.results = FreshResults(search'.query, search'.scope)
       /\ (search # Idle /\ search' = Idle /\ CacheDown(search))
          => search_cache' = search_cache
       /\ ~enabled => (embedding_cache' = embedding_cache /\ search_cache' = search_cache)
       /\ \A c \in Slots :
             (At(c, "p95") /\ consumers'[c].pc # "p95")
             => processes'[Job(c)].status = COMPLETED]_vars

C16_Witness ==
    /\ enabled
    /\ search.pc = "miss"
    /\ ~search.redis_ok
    /\ search.results # <<>>
    /\ SearchKey(search.query, n_results, search.scope) \in DOMAIN search_cache
    /\ search_cache[SearchKey(search.query, n_results, search.scope)].results # <<>>

(* ------------------------- what a search returns ------------------------ *)
\* C17: a search that returns an empty list found no row in its scope: a
\* failure of the query embedding or of the SQL query is never answered
\* with an empty list
C17_EmptyMeansNoMatch ==
    [][(search = Idle /\ search' # Idle /\ search'.results = <<>>)
       => {r \in document_chunks : InScope(r, search'.scope)} = {}]_vars

\* the rows of a result list
Returned(call) == {call.results[i] : i \in 1..Len(call.results)}

\* C18: a search returns at most n_results rows, all of them in its scope,
\* in order of non-increasing similarity, and no row of the scope that is
\* left out is more similar to the query than a returned row
C18_TopKInScope ==
    [][(search = Idle /\ search'.pc \in {"hit", "miss"})
       => /\ Len(search'.results) <= n_results
          /\ \A r \in Returned(search') : InScope(r, search'.scope)
          /\ \A i, j \in 1..Len(search'.results) :
                i < j => Similarity(search'.query, search'.results[i])
                           >= Similarity(search'.query, search'.results[j])
          /\ \A o \in {r \in document_chunks : InScope(r, search'.scope)} \ Returned(search') :
                \A r \in Returned(search') :
                    Similarity(search'.query, o) <= Similarity(search'.query, r)]_vars

(* --------------------------- two-tier filter ---------------------------- *)
\* the candidates of the second tier, taken one by one: above the
\* secondary threshold and not kept by the first tier
Secondary(initial_results) ==
    SelectSeq(initial_results,
              LAMBDA chunk : /\ chunk.similarity_score > secondary_threshold
                             /\ ~(chunk.similarity_score > primary_threshold))

\* the positions of a list that do not repeat an earlier element
FirstOccurrences(seq) == {i \in DOMAIN seq : \A j \in 1..(i - 1) : seq[j] # seq[i]}

\* the k-th smallest element of a set of positions
Nth(S, k) == CHOOSE i \in S : Cardinality({j \in S : j < i}) = k - 1

\* the list without the repetitions of earlier elements
Distinct(seq) ==
    [k \in 1..Cardinality(FirstOccurrences(seq)) |-> seq[Nth(FirstOccurrences(seq), k)]]

\* C19, as stated: get_relevant_context keeps the candidates above 0.4; when
\* fewer than 2 pass it adds every candidate above 0.3 it has not kept; the
\* list is cut to max_chunks
C19_TwoTierFilter ==
    context.n = 1
    => context.results =
         Prefix(IF Len(FilterPrimary(context.initial_results)) < min_results
                THEN FilterPrimary(context.initial_results) \o Secondary(context.initial_results)
                ELSE FilterPrimary(context.initial_results),
                context.max_chunks)

\* C19, amended: the same, but of second-tier candidates that are equal
\* (same content, metadata and score) only the first is added
C19_TwoTierFilterDistinct ==
    context.n = 1
    => context.results =
         Prefix(IF Len(FilterPrimary(context.initial_results)) < min_results
                THEN FilterPrimary(context.initial_results)
                       \o Distinct(Secondary(context.initial_results))
                ELSE FilterPrimary(context.initial_results),
                context.max_chunks)

C19_Witness ==
    /\ context.n = 1
    /\ Len(context.initial_results) = 3
    /\ FilterPrimary(context.initial_results) = <<>>
    /\ Len(Secondary(context.initial_results)) = 2
    /\ context.results = Secondary(context.initial_results)

(* ------------------------------ chunk_text ------------------------------ *)
\* C20: with 0 <= overlap < chunk_size, every pass of the chunk_text loop
\* leaves start larger than it was, also when the window was cut at a
\* sentence boundary
C20_StartIncreases ==
    [][(/\ chunking.pc = "loop"
        /\ chunking'.iterations = chunking.iterations + 1
        /\ 0 <= chunking.overlap
        /\ chunking.overlap < chunking.chunk_size)
       => chunking'.start > chunking.start]_vars

\* C21: a chunk_text call with overlap >= chunk_size raises before it
\* produces a chunk: it never enters the loop and never returns chunks
C21_OverlapRejected ==
    (chunking.pc # "idle" /\ chunking.overlap >= chunking.chunk_size)
    => (chunking.pc = "raised" /\ chunking.chunks = <<>> /\ chunking.iterations = 0)

\* the chunks of the chunker call as slices of its text, for chunk_text
\* and for chunk_text_with_pages
ChunkerReturned == chunking.pc \in {"returned", "pages_returned"}
Slices ==
    [i \in DOMAIN chunking.chunks |->
        IF chunking.pc \in {"pages_loop", "pages_returned"}
        THEN chunking.chunks[i].text ELSE chunking.chunks[i]]

\* C22: a text of at most chunk_size characters gives exactly one chunk, the
\* text with its surrounding whitespace removed, whatever the page map
C22_ShortTextOneChunk ==
    (ChunkerReturned /\ chunking.text.len <= chunking.chunk_size)
    => Slices = <<Strip(chunking.text, 0, chunking.text.len)>>

\* C23: the empty text gives no chunk, and no chunk of any result is empty
\* or made of whitespace only
C23_NoEmptyChunk ==
    /\ (ChunkerReturned /\ chunking.text.len = 0) => chunking.chunks = <<>>
    /\ \A i \in DOMAIN Slices :
          \E p \in Slices[i][1]..(Slices[i][2] - 1) : p \notin chunking.text.spaces

\* the last period in the window [start, start + chunk_size), or -1
LastPeriod ==
    LET inside == {p \in chunking.text.dots :
                     chunking.start <= p /\ p < chunking.start + chunking.chunk_size}
    IN  IF inside = {} THEN -1 ELSE CHOOSE p \in inside : \A q \in inside : q <= p

\* C24: a pass of the loop whose window [start, start + chunk_size) ends
\* before the text does ends its chunk just after the last period of the
\* window when that period is among the last 100 characters of the window,
\* and at start + chunk_size otherwise (the next start is that end less the
\* overlap)
C24_SentenceCut ==
    [][(/\ chunking.pc = "loop"
        /\ chunking'.iterations = chunking.iterations + 1
        /\ chunking.start >= 0
        /\ chunking.start + chunking.chunk_size < chunking.text.len)
       => chunking'.start + chunking.overlap =
            IF LastPeriod >= chunking.start + chunking.chunk_size - sentence_window
            THEN LastPeriod + 1
            ELSE chunking.start + chunking.chunk_size]_vars

(* ------------------------- chunk_text_with_pages ------------------------ *)
\* the spans of the page map of the call that contain an offset
SpansAt(position) ==
    {k \in DOMAIN chunking.page_map :
        chunking.page_map[k].start <= position /\ position <= chunking.page_map[k].end}

\* C25: every chunk of chunk_text_with_pages carries the page of the one
\* span that contains its start offset, the last page of the map when no
\* span contains it, and no page when the page map is empty
C25_PageOfStart ==
    chunking.pc \in {"pages_loop", "pages_returned"}
    => \A i \in DOMAIN chunking.chunks :
          LET chunk == chunking.chunks[i] IN
            IF chunking.page_map = <<>> THEN chunk.page_number = None
            ELSE IF SpansAt(chunk.start_pos) = {}
                 THEN chunk.page_number = chunking.page_map[Len(chunking.page_map)].page
                 ELSE \E k \in SpansAt(chunk.start_pos) :
                         /\ SpansAt(chunk.start_pos) = {k}
                         /\ chunk.page_number = chunking.page_map[k].page

\* a call on a map of two pages that returned a chunk of page 1, a chunk
\* that starts in the span of page 2 and a chunk that starts after both
C25_Witness ==
    /\ chunking.pc = "pages_returned"
    /\ Len(chunking.page_map) = 2
    /\ \E i, j, l \in DOMAIN chunking.chunks :
          /\ chunking.chunks[i].page_number = 1
          /\ chunking.chunks[j].page_number = 2 /\ SpansAt(chunking.chunks[j].start_pos) # {}
          /\ chunking.chunks[l].page_number = 2 /\ SpansAt(chunking.chunks[l].start_pos) = {}

(* ------------------------------ submit ---------------------------------- *)
\* C26: a submit call, by post or by file, whose reference has no location
\* or no name raises, and leaves the job table and the queue as they were
C26_InvalidRejected ==
    [][(/\ submitted' # submitted
        /\ \/ Not(submitted'.location)
           \/ Not(submitted'.doc_name))
       => (/\ submitted'.raised # None
           /\ UNCHANGED <<processes, queue>>)]_vars

\* C27: a submit of a post that has a document can be taken in every state
\* (while the model still admits a job), whatever the consumers are doing;
\* the step that adds a job adds exactly one, queued with progress 0 and
\* at the tail of the queue, leaves the other jobs and the consumers as they
\* were, and get_process_status returns the new job right after it
C27_SubmitNeverWaits ==
    /\ [](Len(processes) < MaxJobs => \A post \in Resubmitted : ENABLED Submit(post))
    /\ [][Len(processes') # Len(processes)
          => (/\ Len(processes') = Len(processes) + 1
              /\ \A j \in Ids : processes'[j] = processes[j]
              /\ LET new == GetProcessStatus(processes', Len(processes')) IN
                   /\ new.process_id = Len(processes')
                   /\ new.status = QUEUED
                   /\ new.progress = 0
              /\ queue' = Append(queue, Len(processes'))
              /\ UNCHANGED <<is_running, consumers>>)]_vars

\* a job was submitted and is still queued while a consumer that was told
\* to stop is storing the chunks of the job before it
C27_Witness ==
    /\ ~is_running
    /\ Len(processes) = 2
    /\ processes[1].status = PROCESSING /\ processes[1].progress = 75
    /\ processes[2].status = QUEUED /\ processes[2].progress = 0
    /\ queue = <<2>>

\* C28: two submissions of the same post are two jobs with different
\* process ids, and when both are completed the table holds the rows of
\* both: twice the chunks of the document
C28_NoDeduplication ==
    \A a, b \in Ids :
        (a # b /\ processes[a].post_id = processes[b].post_id)
        => /\ processes[a].process_id # processes[b].process_id
           /\ (StatusOf(a) = COMPLETED /\ StatusOf(b) = COMPLETED)
              => Cardinality(RowsOf(document_chunks, a) \cup RowsOf(document_chunks, b))
                   = 2 * ChunksPerDoc

(* ------------------------------ enhancement ---------------------------- *)
\* C29: a text is enhanced to the same string when it is indexed as a chunk
\* and when it is searched as a query with the subject and topic of the
\* chunk, so the embedding of the query is the stored embedding of the chunk
C29_EnhancementsAgree ==
    enhanced.called
    => /\ enhanced.enhanced_query = enhanced.enhanced_chunk
       /\ ProviderVector(enhanced.enhanced_query) = ProviderVector(enhanced.enhanced_chunk)

(* ------------------------------ termination ---------------------------- *)
\* a job is unfinished business while it is being processed, or queued with
\* the scheduler running
Pending(j) ==
    /\ j \in Ids
    /\ \/ StatusOf(j) = PROCESSING
       \/ StatusOf(j) = QUEUED /\ is_running

\* C30: no job stays pending for ever: a queued job is eventually completed
\* or failed unless the scheduler is stopped while it is still queued, and a
\* job that is being processed is eventually completed or failed, also when
\* stop() is called in the meantime (a pending job stops being pending only
\* by reaching completed or failed, or by a stop() while it is queued)
C30_JobsTerminate ==
    \A j \in 1..MaxJobs : []<>(~Pending(j))

\* the scheduler was stopped and its one consumer is still processing a
\* job, which has reached the last stage
C30_Witness ==
    \E c \in Slots :
        /\ ~is_running
        /\ At(c, "p95")
        /\ StatusOf(Job(c)) = PROCESSING
        /\ \A d \in Slots : d # c => Dead(d)

(* ------------------------------ job records ---------------------------- *)
\* C31: in every state each job record is whole: queued with progress 0 and
\* no timestamps or error; processing with a start time, no completion time
\* and progress in 5..95; completed with progress 100, a completion time and
\* no error; failed with an error, a completion time and progress below 100
C31_NoTornRecord ==
    \A j \in Ids :
        LET info == processes[j] IN
          /\ info.status = QUEUED
             => /\ info.progress = 0
                /\ info.started_at = None
                /\ info.completed_at = None
                /\ info.error_message = None
          /\ info.status = PROCESSING
             => /\ info.started_at # None
                /\ info.completed_at = None
                /\ 5 <= info.progress /\ info.progress <= 95
          /\ info.status = COMPLETED
             => /\ info.progress = 100
                /\ info.completed_at # None
                /\ info.error_message = None
          /\ info.status = FAILED
             => /\ info.error_message # None
                /\ info.completed_at # None
                /\ info.progress < 100

\* one job has failed with its error stored while another is in its last
\* stage
C31_Witness ==
    \E i, j \in Ids :
        /\ StatusOf(i) = FAILED /\ processes[i].error_message # None
        /\ StatusOf(j) = PROCESSING /\ processes[j].progress = 95

\* C32: a job calls invalidate_course_cache only after its add call has
\* committed its rows, and is completed only after the invalidation: the
\* step that invalidates belongs to a job in `added` that is processing and
\* is completed by it
C32_InvalidateAfterAdd ==
    [][\A c \in Slots :
          (At(c, "p95") /\ consumers'[c].pc # "p95")
          => /\ Job(c) \in added
             /\ StatusOf(Job(c)) = PROCESSING
             /\ processes'[Job(c)].status = COMPLETED]_vars

(* ----------------------------- cache scopes ---------------------------- *)
\* C33: a result list returned from the search cache was computed by a
\* search of the same scope: the same kind (document or collection) and
\* the same id
C33_NoCrossScopeHit ==
    [][(search = Idle /\ search'.pc = "hit")
       => search_cache[SearchKey(search'.query, n_results, search'.scope)].scope
            = search'.scope]_vars

\* C34: a search that read the table before an add to its scope committed
\* and caches its result after the job of that add has invalidated and
\* completed leaves no stale entry: the list it caches is the list a query
\* of the table returns now (the list is not empty, and no row it read has
\* been deleted since)
C34_NoStaleEntryAfterRace ==
    [][(/\ search.pc = "miss" /\ search' = Idle
        /\ search.results # <<>> /\ Returned(search) \subseteq document_chunks
        /\ \E j \in added \ search.asof :
              /\ StatusOf(j) = COMPLETED
              /\ \E r \in document_chunks : r.job = j /\ InScope(r, search.scope))
       => LET key == SearchKey(search.query, n_results, search.scope)
          IN  key \in DOMAIN search_cache'
              => search_cache'[key].results
                   = NearestRows(search.query,
                                 {r \in document_chunks : InScope(r, search.scope)},
                                 n_results)]_vars

(* ------------------------------ stop and queue ------------------------- *)
\* C35: while the scheduler is stopped (stop() has returned and start() has
\* not been called since) no job goes from QUEUED to PROCESSING, whether it
\* was queued before stop() or submitted after it
C35_NoStartWhileStopped ==
    [][\A j \in Ids :
          (StatusOf(j) = QUEUED /\ processes'[j].status = PROCESSING) => is_running]_vars

\* the number of times a job id is in a queue, and the consumers that have
\* taken a job off the queue and not yet started it
Positions(q, j) == Cardinality({i \in 1..Len(q) : q[i] = j})
Taken(j) == {c \in Slots : consumers[c].pc = "begin" /\ consumers[c].item = j}

\* no job leaves the table, and a job that is not in the queue never comes
\* back into it, so that no job id is dequeued twice
NeverRequeued ==
    \A j \in Ids :
        /\ j \in DOMAIN processes' /\ processes'[j].process_id = processes[j].process_id
        /\ Positions(queue, j) = 0 => Positions(queue', j) = 0

\* C36 as stated: every queued job is exactly once in the queue, every queue
\* item is a queued job of the table, no job id is dequeued twice or removed
\* from the table
C36_QueueTableConsistent ==
    /\ [](/\ \A i \in 1..Len(queue) : queue[i] \in Ids /\ StatusOf(queue[i]) = QUEUED
          /\ \A j \in Ids : StatusOf(j) = QUEUED => Positions(queue, j) = 1)
    /\ [][NeverRequeued]_vars

\* C36: every queued job is exactly once either in the queue or in the hands
\* of the one consumer whose queue.get() has returned it and which has not
\* yet set it to processing; every queue item is a queued job of the table,
\* a job that is not queued is not in the queue, and no job id is dequeued
\* twice or removed from the table
C36_QueuedInQueueOrTaken ==
    /\ [](/\ \A i \in 1..Len(queue) : queue[i] \in Ids /\ StatusOf(queue[i]) = QUEUED
          /\ \A j \in Ids :
                /\ StatusOf(j) = QUEUED
                   => Positions(queue, j) + Cardinality(Taken(j)) = 1
                /\ StatusOf(j) # QUEUED => Positions(queue, j) = 0 /\ Taken(j) = {})
    /\ [][NeverRequeued]_vars

C36_Witness ==
    \E c \in Slots :
        /\ At(c, "begin") /\ StatusOf(Job(c)) = QUEUED /\ Positions(queue, Job(c)) = 0
        /\ \E j \in Ids : StatusOf(j) = QUEUED /\ Positions(queue, j) = 1

(* --------------------------- embedding cache --------------------------- *)
\* C37: every entry of the embedding cache holds, under the key of a text,
\* the vector the provider returns for that text
C37_CacheContentCorrect ==
    \A text \in DOMAIN embedding_cache :
        DeserializeValue(embedding_cache[text]) = ProviderVector(text)

C37_Witness ==
    /\ embed.n = 2 /\ embed.ok /\ embed.called /\ embed.hits # {}
    /\ \E i, j \in DOMAIN embed.texts :
          i < j /\ embed.texts[i] = embed.texts[j] /\ embed.texts[i] \notin embed.hits
    /\ DOMAIN embedding_cache = Texts

(* -------------------------------- delete ------------------------------- *)
\* C38: a step that removes rows from the table removes the rows of one
\* document, all of them (a delete that fails removes none), and leaves the
\* rows of every other document as they were; it adds no row
C38_DeleteFrame ==
    [][document_chunks \ document_chunks' # {}
       => \E post \in Posts :
            /\ document_chunks \ document_chunks' = {r \in document_chunks : r.post_id = post}
            /\ document_chunks' = {r \in document_chunks : r.post_id # post}]_vars

C38_Witness ==
    \E i, j \in added :
        /\ processes[i].post_id # processes[j].post_id
        /\ RowsOf(document_chunks, i) = {}
        /\ RowsOf(document_chunks, j) = Batch(j, processes[j].post_id)

(* ---------------------------- sliding window --------------------------- *)
\* the offsets of the text of the call that are not whitespace and lie in
\* none of the chunks appended so far
Lost(chunks) ==
    {p \in 0..(chunking.text.len - 1) :
        /\ p \notin chunking.text.spaces
        /\ \A i \in DOMAIN chunks : ~(chunks[i][1] <= p /\ p < chunks[i][2])}

\* C39: with 0 <= overlap < chunk_size the windows [start, end) of chunk_text
\* cover the text: the next window starts exactly overlap characters before
\* the end of this one, it reaches further than this one (so the windows get
\* to the end of the text), the last window ends at or beyond the end of the
\* text, and no character of the text other than whitespace is missing from
\* the chunks returned
C39_WindowsCoverText ==
    [][(/\ chunking.pc = "loop"
        /\ chunking'.iterations = chunking.iterations + 1
        /\ 0 <= chunking.overlap
        /\ chunking.overlap < chunking.chunk_size)
       => LET end == WindowEnd(chunking.text, chunking.start, chunking.chunk_size)
          IN  /\ chunking'.start = end - chunking.overlap
              /\ chunking'.pc = "loop"
                 => WindowEnd(chunking.text, chunking'.start, chunking.chunk_size) > end
              /\ chunking'.pc = "returned"
                 => end >= chunking.text.len /\ Lost(chunking'.chunks) = {}]_vars

(* ------------------------- the two chunkers ----------------------------- *)
\* a chunk_text_with_pages call read as a chunk_text call: the texts of its
\* chunks, without the page map
Plain(call) ==
    [call EXCEPT !.pc = IF @ = "pages_loop" THEN "loop"
                        ELSE IF @ = "pages_returned" THEN "returned" ELSE @,
                 !.page_map = <<>>,
                 !.chunks = [i \in DOMAIN @ |-> @[i].text]]

\* C40: chunk_text_with_pages gives the chunk texts chunk_text gives, for
\* every page map: its call starts as the chunk_text call on the same text,
\* chunk_size and overlap starts, and every pass of its loop appends the
\* text (or nothing) that the pass of chunk_text appends and moves start
\* and ends the loop as that pass does
C40_SameChunkTexts ==
    [][/\ (chunking.pc = "idle" /\ chunking'.pc # "idle")
          => Plain(chunking')
               = ChunkStart(chunking'.text, chunking'.chunk_size, chunking'.overlap)
       /\ chunking.pc = "pages_loop"
          => Plain(chunking') = ChunkPass(Plain(chunking))]_vars

C40_Witness ==
    /\ chunking.pc = "pages_returned"
    /\ Len(chunking.page_map) = 2
    /\ Len(chunking.chunks) >= 2
    /\ chunking.chunks[1].end_pos < chunking.chunk_size
    /\ chunking.chunks[1].page_number # chunking.chunks[2].page_number

====
